---- MODULE Spec2Model ----
(***************************************************************************)
(* Model of taxa_PCA/metaphlan-collapse-taxa.py: collapse_merged_bugs.     *)
(*                                                                         *)
(* Text is modelled as a sequence of chunks.  A chunk is a record          *)
(* [s, h, u]: for ordinary text s is the text of the chunk and h = u = 0;  *)
(* for a numeral s is "int" (plain digits) or "fix8" (digits with eight    *)
(* decimals, the form '%.8f' writes) and the numeral's value is            *)
(* h * 2^53 + u.  The chunks "TAB" and "|" are the two separators the code *)
(* splits on, "GGB" is the genome-bin marker, and the seven rank prefixes  *)
(* are chunks of their own, so that str.split, str.strip, str.startswith,  *)
(* str.replace and the substring test act on chunks as they act on the     *)
(* characters of the real string.  A line is a string without its newline, *)
(* a file is a sequence of lines.                                          *)
(***************************************************************************)
EXTENDS Naturals, Sequences, FiniteSets

VARIABLES input_file, output_file, written, opened, taxonomic_level, pc,
          lines, header, data, warnings, df, dtypes, collapsed_data, i,
          run, raw_file

vars == <<input_file, output_file, written, opened, taxonomic_level, pc,
          lines, header, data, warnings, df, dtypes, collapsed_data, i,
          run, raw_file>>

(* ---------------------------- text ------------------------------------- *)

T(s) == [s |-> s, h |-> 0, u |-> 0]

Str(ss) == [k \in 1..Len(ss) |-> T(ss[k])]

Numeral(kind, h, u) == <<[s |-> kind, h |-> h, u |-> u]>>

Tab == "TAB"

\* str.split(sep)
RECURSIVE Split(_, _)
Split(str, sep) ==
    IF \E k \in 1..Len(str) : str[k].s = sep
    THEN LET k == CHOOSE m \in 1..Len(str) :
                      /\ str[m].s = sep
                      /\ \A n \in 1..(m - 1) : str[n].s # sep
         IN  <<SubSeq(str, 1, k - 1)>> \o Split(SubSeq(str, k + 1, Len(str)), sep)
    ELSE <<str>>

\* sep.join(fields)
RECURSIVE Join(_, _)
Join(fields, sep) ==
    IF Len(fields) = 0 THEN << >>
    ELSE IF Len(fields) = 1 THEN fields[1]
    ELSE fields[1] \o <<T(sep)>> \o Join(Tail(fields), sep)

\* str.strip(): the only whitespace inside a line is the tab
RECURSIVE LStrip(_)
LStrip(str) ==
    IF Len(str) > 0 /\ str[1].s = Tab THEN LStrip(Tail(str)) ELSE str

RECURSIVE RStrip(_)
RStrip(str) ==
    IF Len(str) > 0 /\ str[Len(str)].s = Tab
    THEN RStrip(SubSeq(str, 1, Len(str) - 1)) ELSE str

Strip(str) == RStrip(LStrip(str))

\* sub in str, for a marker that is a chunk of its own
Contains(str, sub) == \E k \in 1..Len(str) : str[k].s = sub

\* str.startswith(prefix)
StartsWith(str, prefix) == Len(str) > 0 /\ str[1].s = prefix

\* str.replace(prefix, ''): every occurrence is removed
Replace(str, prefix) == SelectSeq(str, LAMBDA c : c.s # prefix)

(* ---------------------------- numbers ---------------------------------- *)
\* A float64 value h * 2^53 + u with u small.  Below 2^53 every integer is
\* representable; from 2^53 on the spacing of the doubles is Ulp(h).  The
\* cells of the model are integers, which '%.8f' writes without rounding.

Zero == [nan |-> FALSE, h |-> 0, u |-> 0]

NaN == [nan |-> TRUE, h |-> 0, u |-> 0]

RECURSIVE Ulp(_)
Ulp(h) == IF h = 0 THEN 1 ELSE 2 * Ulp(h \div 2)

\* round to nearest, ties to even
RoundEven(h, u) ==
    LET sp == Ulp(h)
        q  == u \div sp
        r  == u % sp
    IN  IF 2 * r < sp THEN q * sp
        ELSE IF 2 * r > sp THEN (q + 1) * sp
        ELSE IF q % 2 = 0 THEN q * sp ELSE (q + 1) * sp

\* float64 addition
FAdd(x, y) ==
    [nan |-> FALSE, h |-> x.h + y.h, u |-> RoundEven(x.h + y.h, x.u + y.u)]

IsNumeral(field) == Len(field) = 1 /\ field[1].s \in {"int", "fix8"}

\* pd.to_numeric(series, errors='coerce'), one cell
ToNumeric(field) ==
    IF IsNumeral(field)
    THEN [nan |-> FALSE, h |-> field[1].h, u |-> field[1].u]
    ELSE NaN

\* df.fillna(0), one cell
FillNa(v) == IF v.nan THEN Zero ELSE v

\* to_csv(float_format='%.8f'): float columns get eight decimals, integer
\* columns are written as plain digits
ToCsvCell(v, dtype) ==
    Numeral(IF dtype = "int64" THEN "int" ELSE "fix8", v.h, v.u)

(* ---------------------------- the function ------------------------------ *)

\* level_prefixes
level_prefixes ==
    [kingdom |-> "k__", phylum |-> "p__", class |-> "c__", order |-> "o__",
     family |-> "f__", genus |-> "g__", species |-> "s__"]

\* ValidLevel with the check left out
ValidLevelAny(level) == TRUE

\* the check of the requested level
ValidLevel(level) == level \in DOMAIN level_prefixes \/ level = "all"

\* lines = [line.strip() for line in f if line.strip()]
ReadLines(file) ==
    SelectSeq([k \in 1..Len(file) |-> Strip(file[k])], LAMBDA l : Len(l) > 0)

\* header = lines[1].split('\t')
ParseHeader(ls) == Split(ls[2], Tab)

\* the fields of the lines after the header
SplitRows(ls) == [k \in 1..(Len(ls) - 2) |-> Split(ls[k + 2], Tab)]

\* ParseData with break in the place of continue: the first line of another
\* field count ends the loop
ParseDataStop(ls) ==
    LET rows == SplitRows(ls)
        bad  == {k \in 1..Len(rows) : Len(rows[k]) # Len(ParseHeader(ls))}
    IN  IF bad = {} THEN rows
        ELSE SubSeq(rows, 1, (CHOOSE k \in bad : \A m \in bad : k <= m) - 1)

\* the loop over lines[2:]: a line of another field count is skipped
ParseData(ls) ==
    SelectSeq(SplitRows(ls), LAMBDA parts : Len(parts) = Len(ParseHeader(ls)))

\* one warning is printed for each skipped line
CountWarnings(ls) ==
    Len(SelectSeq(SplitRows(ls), LAMBDA parts : Len(parts) # Len(ParseHeader(ls))))

\* FilterGGB with the filter left out
FilterGGBNone(rows) == rows

\* df = df[~df[clade_column].str.contains('GGB', na=False)]
FilterGGB(rows) == SelectSeq(rows, LAMBDA parts : ~Contains(parts[1], "GGB"))

\* the dtype pd.to_numeric gives a column
ColumnDtype(rows, c) ==
    IF \A k \in 1..Len(rows) : IsNumeral(rows[k][c + 1]) /\ rows[k][c + 1][1].s = "int"
    THEN "int64" ELSE "float64"

Dtypes(rows, hdr) == [c \in 1..(Len(hdr) - 1) |-> ColumnDtype(rows, c)]

\* Frame with dropna in the place of fillna(0): a row with a cell that is no
\* number is lost
FrameDropNa(rows) ==
    LET kept == SelectSeq(rows, LAMBDA parts : \A c \in 2..Len(parts) : IsNumeral(parts[c]))
    IN  [k \in 1..Len(kept) |->
            [clade |-> kept[k][1],
             row   |-> [c \in 1..(Len(kept[k]) - 1) |-> ToNumeric(kept[k][c + 1])]]]

\* set_index, pd.to_numeric on every column, fillna(0)
Frame(rows) ==
    [k \in 1..Len(rows) |->
        [clade |-> rows[k][1],
         row   |-> [c \in 1..(Len(rows[k]) - 1) |-> FillNa(ToNumeric(rows[k][c + 1]))]]]

Key == Str(<<"Key">>)

\* the 'all' branch: reset_index, rename of the first column, to_csv
AllTable(hdr, frame, dts) ==
    <<Join([c \in 1..Len(hdr) |-> IF hdr[c] = hdr[1] THEN Key ELSE hdr[c]], Tab)>>
    \o [k \in 1..Len(frame) |->
          Join(<<frame[k].clade>>
               \o [c \in 1..Len(frame[k].row) |-> ToCsvCell(frame[k].row[c], dts[c])],
               Tab)]

NoTaxon == [found |-> FALSE, name |-> << >>]

\* the taxon name of a clade at the target prefix
TaxonName(clade, target_prefix) ==
    IF Contains(clade, "|")
    THEN LET parts  == Split(clade, "|")
             target == SelectSeq(parts, LAMBDA p : StartsWith(p, target_prefix))
         IN  IF Len(target) = 0 THEN NoTaxon
             ELSE [found |-> TRUE, name |-> Replace(target[1], target_prefix)]
    ELSE IF ~StartsWith(clade, target_prefix) THEN NoTaxon
         ELSE [found |-> TRUE, name |-> Replace(clade, target_prefix)]

\* Series + Series, element by element
VAdd(a, b) == [c \in 1..Len(a) |-> FAdd(a[c], b[c])]

\* Accumulate with = in the place of +=: a later row replaces the total
AccumulateOverwrite(cd, name, row) ==
    IF \E k \in 1..Len(cd) : cd[k].key = name
    THEN LET k == CHOOSE m \in 1..Len(cd) : cd[m].key = name
         IN  [cd EXCEPT ![k].row = row]
    ELSE Append(cd, [key |-> name, row |-> row])

\* collapsed_data[taxon_name] = row.copy()  or  collapsed_data[taxon_name] += row
Accumulate(cd, name, row) ==
    IF \E k \in 1..Len(cd) : cd[k].key = name
    THEN LET k == CHOOSE m \in 1..Len(cd) : cd[m].key = name
         IN  [cd EXCEPT ![k].row = VAdd(@, row)]
    ELSE Append(cd, [key |-> name, row |-> row])

\* one iteration of the loop over df.iterrows()
CollapseStep(cd, r, target_prefix) ==
    IF Contains(r.clade, "GGB") THEN cd
    ELSE LET t == TaxonName(r.clade, target_prefix)
         IN  IF ~t.found THEN cd ELSE Accumulate(cd, t.name, r.row)

RECURSIVE CollapseFrom(_, _, _, _)
CollapseFrom(cd, frame, k, target_prefix) ==
    IF k > Len(frame) THEN cd
    ELSE CollapseFrom(CollapseStep(cd, frame[k], target_prefix), frame, k + 1, target_prefix)

\* the whole loop
Collapse(frame, target_prefix) == CollapseFrom(<< >>, frame, 1, target_prefix)

\* the collapsed table as written: lines[0], the header, one line per key
CollapsedTable(ls, hdr, cd) ==
    <<ls[1], Join(<<Key>> \o Tail(hdr), Tab)>>
    \o [k \in 1..Len(cd) |->
          Join(<<cd[k].key>>
               \o [c \in 1..Len(cd[k].row) |-> ToCsvCell(cd[k].row[c], "float64")],
               Tab)]

\* collapse_merged_bugs(input_file, output_file, taxonomic_level) as a function
\* of the file's content: how the call ends and what it leaves in output_file
\* (old is what output_file held before the call)
Result(status, wr, out) == [status |-> status, written |-> wr, out |-> out]

collapse_merged_bugs(file, old, level) ==
    IF ~ValidLevel(level) THEN Result("invalid", FALSE, old)
    ELSE LET ls == ReadLines(file) IN
         IF Len(ls) < 2 THEN Result("crash", FALSE, old)
         ELSE LET hdr   == ParseHeader(ls)
                  rows  == FilterGGB(ParseData(ls))
                  frame == Frame(rows)
              IN  IF level = "all"
                  THEN Result("done", TRUE, AllTable(hdr, frame, Dtypes(rows, hdr)))
                  ELSE LET cd == Collapse(frame, level_prefixes[level])
                       IN  IF Len(cd) > 0
                           THEN Result("done", TRUE, CollapsedTable(ls, hdr, cd))
                           ELSE Result("done", FALSE, old)

(* ---------------------------- inputs ----------------------------------- *)

MaxRows == 3

Levels == {"phylum", "genus", "species", "all", "strain"}

RerunLevels == {"phylum", "genus", "species"}

TwoPow53 == Numeral("int", 1, 0)

Int(n) == Numeral("int", 0, n)

NA == Str(<<"NA">>)

Subtilis ==
    Str(<<"k__", "Bacteria", "|", "p__", "Firmicutes", "|", "g__", "Bacillus", "|", "s__", "subtilis">>)

Cereus ==
    Str(<<"k__", "Bacteria", "|", "p__", "Firmicutes", "|", "g__", "Bacillus", "|", "s__", "cereus">>)

Firmicutes == Str(<<"k__", "Bacteria", "|", "p__", "Firmicutes">>)

GenomeBin ==
    Str(<<"k__", "Bacteria", "|", "p__", "Firmicutes", "|", "g__", "GGB", "1234", "|", "s__", "unclassified">>)

BareGenus == Str(<<"g__", "Bacillus">>)

\* a genus token whose name holds the genus prefix once more, and the species
\* name of Subtilis under another genus
Nested ==
    Str(<<"k__", "Bacteria", "|", "g__", "Rum", "g__", "coccus", "|", "s__", "subtilis">>)

MetaLine == Str(<<"#mpa_v30">>)

HeaderLine == Join(<<Str(<<"clade_name">>), Str(<<"S1">>), Str(<<"S2">>)>>, Tab)

RowLines ==
    { Join(<<Subtilis, Int(1), Int(2)>>, Tab),
      Join(<<Cereus, Int(2), NA>>, Tab),
      Join(<<Firmicutes, Int(4), Int(1)>>, Tab),
      Join(<<GenomeBin, Int(5), Int(1)>>, Tab),
      Join(<<BareGenus, TwoPow53, Int(1)>>, Tab),
      Join(<<Nested, Int(1), Int(1)>>, Tab),
      Join(<<Cereus, Int(1)>>, Tab),
      Join(<<Subtilis, Int(1), << >> >>, Tab),
      << >> }

InputFiles ==
    { <<MetaLine, HeaderLine>> \o rows :
        rows \in UNION { [1..n -> RowLines] : n \in 0..MaxRows } }

(* ---------------------------- the run ---------------------------------- *)

Init ==
    /\ input_file \in InputFiles
    /\ raw_file = input_file
    /\ taxonomic_level \in Levels
    /\ output_file = << >>
    /\ written = FALSE
    /\ opened = FALSE
    /\ pc = "validate"
    /\ lines = << >>
    /\ header = << >>
    /\ data = << >>
    /\ warnings = 0
    /\ df = << >>
    /\ dtypes = << >>
    /\ collapsed_data = << >>
    /\ i = 1
    /\ run = 1

\* the check of the level: an invalid one prints the error and returns
Validate ==
    /\ pc = "validate"
    /\ pc' = IF ValidLevel(taxonomic_level) THEN "open" ELSE "invalid"
    /\ UNCHANGED <<input_file, output_file, written, opened, taxonomic_level,
                   lines, header, data, warnings, df, dtypes, collapsed_data,
                   i, run, raw_file>>

\* with open(input_file, 'r') as f: lines = [...]
Open ==
    /\ pc = "open"
    /\ opened' = TRUE
    /\ lines' = ReadLines(input_file)
    /\ pc' = "parse"
    /\ UNCHANGED <<input_file, output_file, written, taxonomic_level, header,
                   data, warnings, df, dtypes, collapsed_data, i, run, raw_file>>

\* header and data; lines[1] raises IndexError on a file of one line
Parse ==
    /\ pc = "parse"
    /\ IF Len(lines) < 2
       THEN /\ pc' = "crash"
            /\ UNCHANGED <<header, data, warnings>>
       ELSE /\ header' = ParseHeader(lines)
            /\ data' = ParseData(lines)
            /\ warnings' = CountWarnings(lines)
            /\ pc' = "frame"
    /\ UNCHANGED <<input_file, output_file, written, opened, taxonomic_level,
                   lines, df, dtypes, collapsed_data, i, run, raw_file>>

\* the DataFrame without the GGB rows, its columns made numeric
BuildFrame ==
    /\ pc = "frame"
    /\ df' = Frame(FilterGGB(data))
    /\ dtypes' = Dtypes(FilterGGB(data), header)
    /\ collapsed_data' = << >>
    /\ i' = 1
    /\ pc' = IF taxonomic_level = "all" THEN "write_all" ELSE "collapse"
    /\ UNCHANGED <<input_file, output_file, written, opened, taxonomic_level,
                   lines, header, data, warnings, run, raw_file>>

\* taxonomic_level == 'all': the full table is saved
WriteAll ==
    /\ pc = "write_all"
    /\ output_file' = AllTable(header, df, dtypes)
    /\ written' = TRUE
    /\ pc' = "done"
    /\ UNCHANGED <<input_file, opened, taxonomic_level, lines, header, data,
                   warnings, df, dtypes, collapsed_data, i, run, raw_file>>

\* CollapseRow keyed by the row's position: every matching row starts an
\* entry of its own
CollapseRowNoMerge ==
    /\ pc = "collapse"
    /\ i <= Len(df)
    /\ collapsed_data' =
          IF TaxonName(df[i].clade, level_prefixes[taxonomic_level]).found
          THEN Append(collapsed_data,
                      [key |-> TaxonName(df[i].clade, level_prefixes[taxonomic_level]).name,
                       row |-> df[i].row])
          ELSE collapsed_data
    /\ i' = i + 1
    /\ UNCHANGED <<input_file, output_file, written, opened, taxonomic_level,
                   pc, lines, header, data, warnings, df, dtypes, run, raw_file>>

\* one row of df.iterrows()
CollapseRow ==
    /\ pc = "collapse"
    /\ i <= Len(df)
    /\ collapsed_data' = CollapseStep(collapsed_data, df[i], level_prefixes[taxonomic_level])
    /\ i' = i + 1
    /\ UNCHANGED <<input_file, output_file, written, opened, taxonomic_level,
                   pc, lines, header, data, warnings, df, dtypes, run, raw_file>>

\* if collapsed_data: the collapsed table is saved
WriteCollapsed ==
    /\ pc = "collapse"
    /\ i > Len(df)
    /\ Len(collapsed_data) > 0
    /\ output_file' = CollapsedTable(lines, header, collapsed_data)
    /\ written' = TRUE
    /\ pc' = "done"
    /\ UNCHANGED <<input_file, opened, taxonomic_level, lines, header, data,
                   warnings, df, dtypes, collapsed_data, i, run, raw_file>>

\* else: "No taxa matched the specified level."
NoMatch ==
    /\ pc = "collapse"
    /\ i > Len(df)
    /\ Len(collapsed_data) = 0
    /\ pc' = "done"
    /\ UNCHANGED <<input_file, output_file, written, opened, taxonomic_level,
                   lines, header, data, warnings, df, dtypes, collapsed_data,
                   i, run, raw_file>>

\* the script is run again, on the file an 'all' run saved
Rerun ==
    /\ pc = "done"
    /\ run = 1
    /\ taxonomic_level = "all"
    /\ input_file' = output_file
    /\ taxonomic_level' \in RerunLevels
    /\ run' = 2
    /\ pc' = "validate"
    /\ written' = FALSE
    /\ opened' = FALSE
    /\ lines' = << >>
    /\ header' = << >>
    /\ data' = << >>
    /\ warnings' = 0
    /\ df' = << >>
    /\ dtypes' = << >>
    /\ collapsed_data' = << >>
    /\ i' = 1
    /\ UNCHANGED <<output_file, raw_file>>

Next ==
    \/ Validate
    \/ Open
    \/ Parse
    \/ BuildFrame
    \/ WriteAll
    \/ CollapseRow
    \/ WriteCollapsed
    \/ NoMatch
    \/ Rerun

Spec == Init /\ [][Next]_vars

(* ---------------------------- properties ------------------------------- *)

Returned == pc \in {"done", "invalid", "crash"}

ConcreteLevels ==
    {"kingdom", "phylum", "class", "order", "family", "genus", "species"}

Concrete == taxonomic_level \in ConcreteLevels

Range(seq) == {seq[k] : k \in 1..Len(seq)}

\* the fields of the non-blank lines after the header line
DataRows(file) ==
    LET ls == ReadLines(file) IN [k \in 1..(Len(ls) - 2) |-> Split(ls[k + 2], Tab)]

HeaderFields(file) == Split(ReadLines(file)[2], Tab)

\* a row of the header's field count whose lineage has no genome-bin marker
Usable(file, parts) ==
    /\ Len(parts) = Len(HeaderFields(file))
    /\ ~Contains(parts[1], "GGB")

UsableRows(file) == SelectSeq(DataRows(file), LAMBDA parts : Usable(file, parts))

\* a cell's number: what it parses to, 0 when it does not parse
CellValue(field) ==
    IF IsNumeral(field) THEN [nan |-> FALSE, h |-> field[1].h, u |-> field[1].u] ELSE Zero

\* the float64 sum of column c over rows, in the order of the rows
RECURSIVE SumColumn(_, _)
SumColumn(rows, c) ==
    IF Len(rows) = 1 THEN CellValue(rows[1][c + 1])
    ELSE FAdd(SumColumn(SubSeq(rows, 1, Len(rows) - 1), c), CellValue(rows[Len(rows)][c + 1]))

\* the file with the lines after the header that satisfy Drop(_) taken out
Without(file, Drop(_)) ==
    SubSeq(file, 1, 2)
    \o SelectSeq(SubSeq(file, 3, Len(file)), LAMBDA l : ~Drop(l))

\* the state's result is the result of the function on file
SameResultAs(file) ==
    LET r == collapse_merged_bugs(file, output_file, taxonomic_level)
    IN  /\ r.status = pc
        /\ r.written = written
        /\ written => r.out = output_file

Perms(n) == {p \in [1..n -> 1..n] : \A a, b \in 1..n : p[a] = p[b] => a = b}

Permuted(file, p) ==
    SubSeq(file, 1, 2) \o [k \in 1..(Len(file) - 2) |-> file[p[k] + 2]]

\* C2: for every permutation of the data rows the collapsed output, as a set
\* of rows, is the same.
C2_PermutationInvariant ==
    pc = "done" =>
        \A p \in Perms(Len(input_file) - 2) :
            LET r == collapse_merged_bugs(Permuted(input_file, p), output_file, taxonomic_level)
            IN  /\ r.written = written
                /\ written => Range(r.out) = Range(output_file)

IsGGBLine(l) == Contains(Split(Strip(l), Tab)[1], "GGB")

\* C3: a row whose lineage contains GGB contributes to no output row at any
\* level: the result is that of the input without these rows, and no line of
\* the output holds the marker.
C3_GGBRowsContributeNothing ==
    pc = "done" =>
        /\ SameResultAs(Without(input_file, IsGGBLine))
        /\ written => \A k \in 1..Len(output_file) : ~Contains(output_file[k], "GGB")

\* C3 witness: a finished 'all' run and a finished genus run whose input held
\* a usable-width GGB row next to a row that was written
C3_Witness ==
    /\ pc = "done"
    /\ written
    /\ taxonomic_level \in {"all", "phylum"}
    /\ \E k \in 3..Len(input_file) :
          /\ IsGGBLine(input_file[k])
          /\ Len(Split(Strip(input_file[k]), Tab)) = Len(header)
    /\ Len(df) > 0

\* C4: an 'all' run followed by a run at rank R on the file it wrote gives the
\* table a single run at rank R on the raw input gives.
C4_RecollapseOfAllOutput ==
    (run = 2 /\ Returned) =>
        LET r == collapse_merged_bugs(raw_file, << >>, taxonomic_level)
        IN  /\ r.status = pc
            /\ r.written = written
            /\ written => r.out = output_file

\* C5: when no row matches the requested rank an empty table is still written.
C5_EmptyTableWritten ==
    (pc = "done" /\ Concrete /\ Len(collapsed_data) = 0) => written

C7_InvalidLevelRejected ==
    (taxonomic_level \notin ConcreteLevels \cup {"all"}) =>
        /\ pc \in {"validate", "invalid"}
        /\ ~opened
        /\ ~written
        /\ output_file = << >>
        /\ lines = << >>
        /\ data = << >>
        /\ df = << >>
        /\ collapsed_data = << >>

\* C7 witness: the run has returned on the invalid level
C7_Witness ==
    /\ pc = "invalid"
    /\ taxonomic_level = "strain"
    /\ Len(input_file) > 2

\* the number of taxa in the state's output
OutTaxa == IF written THEN Len(output_file) - 2 ELSE 0

\* the number of taxa a run on file at level writes
NTaxa(file, level) ==
    LET r == collapse_merged_bugs(file, << >>, level)
    IN  IF r.written THEN Len(r.out) - 2 ELSE 0

Resolves(parts, level) == TaxonName(parts[1], level_prefixes[level]).found

Resolved(parts, level) == TaxonName(parts[1], level_prefixes[level]).name

\* C8 as stated: when every lineage with a species token has a genus token,
\* the species collapse has no more taxa than the genus collapse.
C8_SpeciesNoMoreThanGenus ==
    (/\ pc = "done"
     /\ taxonomic_level = "species"
     /\ \A parts \in Range(UsableRows(input_file)) :
            Resolves(parts, "species") => Resolves(parts, "genus"))
    => OutTaxa <= NTaxa(input_file, "genus")

\* the lineages with a genus token have a species token, and equal species
\* names come with equal genus names
GenusDeterminedBySpecies(file) ==
    /\ \A parts \in Range(UsableRows(file)) :
          Resolves(parts, "genus") => Resolves(parts, "species")
    /\ \A a, b \in Range(UsableRows(file)) :
          (/\ Resolves(a, "genus")
           /\ Resolves(b, "genus")
           /\ Resolved(a, "species") = Resolved(b, "species"))
          => Resolved(a, "genus") = Resolved(b, "genus")

\* C8 amended: when every lineage with a genus token has a species token and
\* lineages of one species name have one genus name, the genus collapse has no
\* more taxa than the species collapse.
C8_GenusNoMoreThanSpecies ==
    (pc = "done" /\ taxonomic_level = "genus" /\ GenusDeterminedBySpecies(input_file))
    => OutTaxa <= NTaxa(input_file, "species")

\* C8 witness: a genus run over two species of one genus wrote one taxon where
\* the species run writes two
C8_Witness ==
    /\ pc = "done"
    /\ taxonomic_level = "genus"
    /\ GenusDeterminedBySpecies(input_file)
    /\ Len(df) > 1
    /\ OutTaxa = 1
    /\ NTaxa(input_file, "species") = 2

\* the first token that starts with the prefix, its leading prefix taken off
FirstTokenName(clade, prefix) ==
    LET tokens == Split(clade, "|")
        hits   == SelectSeq(tokens, LAMBDA t : StartsWith(t, prefix))
    IN  IF Len(hits) = 0 THEN NoTaxon ELSE [found |-> TRUE, name |-> Tail(hits[1])]

\* C9: the keys of the collapse are the names of the rows' first token of the
\* target prefix, only the leading prefix stripped; a row without such a token
\* gives no key.
C9_KeyIsFirstTokenStripped ==
    (pc = "done" /\ Concrete) =>
        {collapsed_data[k].key : k \in 1..Len(collapsed_data)} =
        {FirstTokenName(df[k].clade, level_prefixes[taxonomic_level]).name :
            k \in {m \in 1..Len(df) :
                     FirstTokenName(df[m].clade, level_prefixes[taxonomic_level]).found}}

\* a non-blank line after the header whose field count is not the header's
MalformedLine(l) ==
    /\ Len(Strip(l)) > 0
    /\ Len(Split(Strip(l), Tab)) # Len(HeaderFields(input_file))

\* C10: a data row of another field count than the header is dropped with a
\* warning and does not abort the run: the result is that of the input
\* without the row.
C10_MalformedRowsDropped ==
    /\ (run = 1 => pc # "crash")
    /\ pc = "done" =>
          /\ SameResultAs(Without(input_file, MalformedLine))
          /\ warnings = Len(SelectSeq(SubSeq(input_file, 3, Len(input_file)), MalformedLine))

\* C10 witness: a finished run that skipped a row with a warning and wrote the
\* aggregate of the rows around it
C10_Witness ==
    /\ pc = "done"
    /\ written
    /\ warnings = 1
    /\ Len(input_file) = 5
    /\ MalformedLine(input_file[4])
    /\ Len(df) = 2

====
